---- MODULE Spec2Model ----
(***************************************************************************)
(* A model of the hlltc sketch (src/hlltc.go): a HyperLogLog sketch with   *)
(* a sparse representation (accumulator + compressed list) and a dense     *)
(* representation of 4-bit tail-cut registers sharing a bias base b.       *)
(*                                                                         *)
(* A 64-bit hash is represented by the two things the encoders read from   *)
(* it: hi, its top pp = 25 bits, and nlz, the number of leading zero bits  *)
(* of its low 64 - pp = 39 bits (39 when they are all zero).               *)
(***************************************************************************)
EXTENDS Integers, Sequences, FiniteSets, TLC

\* ------------------------------------------------------------ constants
capacity == 16
pp == 25
mp == 2 ^ pp
version == 1

\* The precisions New accepts.
MinPrecision == 4
MaxPrecision == 18

\* ------------------------------------------------------ integer helpers
Min2(a, b) == IF a < b THEN a ELSE b
Max2(a, b) == IF a > b THEN a ELSE b

RECURSIVE BitLen(_)
\* Number of bits of v (0 for v = 0).
BitLen(v) == IF v = 0 THEN 0 ELSE 1 + BitLen(v \div 2)

\* Leading zeros of v seen as a w-bit word.
Clz(v, w) == w - BitLen(v)

\* Big-endian 4-byte encoding of an unsigned 32-bit value and its inverse.
U32Bytes(x) == << x \div 16777216, (x \div 65536) % 256, (x \div 256) % 256, x % 256 >>
BytesU32(d, i) == d[i] * 16777216 + d[i + 1] * 65536 + d[i + 2] * 256 + d[i + 3]

RECURSIVE SortSet(_)
\* The ascending enumeration of a finite set of integers (sort.Sort(keys)).
SortSet(S) ==
    IF S = {} THEN << >>
    ELSE LET x == CHOOSE y \in S : \A z \in S : y <= z
         IN  << x >> \o SortSet(S \ {x})

\* Every enumeration of a finite set: the orders a Go map iteration can take.
Orders(S) ==
    { f \in [1 .. Cardinality(S) -> S] : \A i, j \in 1 .. Cardinality(S) : i # j => f[i] # f[j] }

\* -------------------------------------------------------- hash encoding
\* encodeHash(x, p, pp): the 32-bit sparse entry of a hash.
encodeHash(x, p, q) ==
    IF x.hi % (2 ^ (q - p)) = 0
    THEN x.hi * 128 + (x.nlz + 1) * 2 + 1
    ELSE x.hi * 2

\* decodeHash(k, p, pp): the (index, rank) of a sparse entry at precision p.
decodeHash(k, p, q) ==
    IF k % 2 = 1
    THEN [i |-> (k \div 128) \div (2 ^ (q - p)), r |-> ((k \div 2) % 64) + (q - p)]
    ELSE [i |-> (k \div 2) \div (2 ^ (q - p)),
          r |-> Clz((k \div 2) % (2 ^ (q - p)), q - p) + 1]

\* getPosVal(x, p): the (index, rank) of a hash at precision p, dense path.
getPosVal(x, p) ==
    [i |-> x.hi \div (2 ^ (pp - p)),
     r |-> IF x.hi % (2 ^ (pp - p)) # 0
           THEN Clz(x.hi % (2 ^ (pp - p)), pp - p) + 1
           ELSE (pp - p) + x.nlz + 1]

\* ------------------------------------------------------- register array
\* One packed byte holds two 4-bit counters: offset 0 the high nibble,
\* offset 1 the low nibble.
reg_get(byte, offset) == IF offset = 0 THEN byte \div 16 ELSE byte % 16

\* A value wider than the counter keeps its low 4 bits.
reg_set(byte, offset, val) ==
    IF offset = 0 THEN (val % 16) * 16 + (byte % 16)
    ELSE (byte \div 16) * 16 + (val % 16)

\* wmax is not a field of the program's registers: it records the largest
\* value set was ever called with on this array.
NilRegs == [nil |-> TRUE, fields |-> << >>, nz |-> 0, wmax |-> 0]

newRegisters(size) ==
    [nil |-> FALSE, fields |-> [k \in 1 .. (size \div 2) |-> 0], nz |-> size, wmax |-> 0]

regs_size(rs) == 2 * Len(rs.fields)

regs_get(rs, i) == reg_get(rs.fields[(i \div 2) + 1], i % 2)

\* Number of zero counters of a packed byte sequence.
ZeroCount(fields) ==
    Cardinality({ i \in 0 .. (2 * Len(fields) - 1) :
                    reg_get(fields[(i \div 2) + 1], i % 2) = 0 })

regs_set(rs, i, val) ==
    LET f == [rs.fields EXCEPT ![(i \div 2) + 1] = reg_set(rs.fields[(i \div 2) + 1], i % 2, val)]
    IN  [nil |-> rs.nil, fields |-> f, nz |-> ZeroCount(f), wmax |-> Max2(rs.wmax, val)]

regs_min(rs) ==
    CHOOSE v \in 0 .. 15 :
        /\ \E i \in 0 .. (regs_size(rs) - 1) : regs_get(rs, i) = v
        /\ \A i \in 0 .. (regs_size(rs) - 1) : regs_get(rs, i) >= v

regs_zeros(rs) == ZeroCount(rs.fields)

\* rebase(delta): every counter minus delta, floored at 0.
regs_rebase(rs, delta) ==
    LET f == [k \in 1 .. Len(rs.fields) |->
                Max2(reg_get(rs.fields[k], 0) - delta, 0) * 16
                + Max2(reg_get(rs.fields[k], 1) - delta, 0)]
    IN  [nil |-> rs.nil, fields |-> f, nz |-> ZeroCount(f), wmax |-> rs.wmax]

\* sum(b): the multiset of true ranks stored[i] + b, which determines
\* the harmonic sum  SUM 2^-(stored[i] + b)  of the dense estimator.
regs_sum(rs, b) ==
    [k \in { regs_get(rs, i) + b : i \in 0 .. (regs_size(rs) - 1) } |->
        Cardinality({ i \in 0 .. (regs_size(rs) - 1) : regs_get(rs, i) + b = k })]

\* ------------------------------------------------------ compressed list
RECURSIVE Varint(_)
\* 7 data bits per byte, low group first, continuation bit on all but the last.
Varint(d) == IF d < 128 THEN << d >> ELSE << 128 + (d % 128) >> \o Varint(d \div 128)

NilList == [nil |-> TRUE, count |-> 0, last |-> 0, b |-> << >>]

newCompressedList(size) == [nil |-> FALSE, count |-> 0, last |-> 0, b |-> << >>]

list_Append(l, x) ==
    [l EXCEPT !.count = @ + 1, !.last = x, !.b = @ \o Varint(x - l.last)]

\* One byte of the delta/varint stream: acc is the value of the varint read
\* so far, sh the weight of its next group, prev the last absolute value,
\* out the values decoded so far.
DecodeStep(st, byte) ==
    IF byte >= 128
    THEN [acc |-> st.acc + (byte - 128) * st.sh, sh |-> st.sh * 128, prev |-> st.prev,
          out |-> st.out]
    ELSE [acc |-> 0, sh |-> 1, prev |-> st.prev + st.acc + byte * st.sh,
          out |-> Append(st.out, st.prev + st.acc + byte * st.sh)]

RECURSIVE DecodeFrom(_, _, _, _)
\* The bytes bs[lo .. hi] decoded in order from st. (The range is halved to
\* keep the evaluation shallow; the test of st.sh never holds, it makes the
\* state be evaluated at each step.)
DecodeFrom(st, bs, lo, hi) ==
    IF lo > hi \/ st.sh < 1 THEN st
    ELSE IF lo = hi THEN DecodeStep(st, bs[lo])
    ELSE DecodeFrom(DecodeFrom(st, bs, lo, (lo + hi) \div 2), bs, ((lo + hi) \div 2) + 1, hi)

\* Iter(): the absolute values of the list, in list order.
list_Iter(l) == DecodeFrom([acc |-> 0, sh |-> 1, prev |-> 0, out |-> << >>], l.b, 1, Len(l.b)).out

\* Len(): the list's element count.
list_Len(l) == l.count

list_MarshalBinary(l) ==
    U32Bytes(l.count) \o U32Bytes(l.last) \o U32Bytes(Len(l.b)) \o l.b

\* An error (a truncated stream) leaves the list as it was.
list_UnmarshalBinary(l, data) ==
    IF Len(data) < 12 \/ Len(data) < 12 + BytesU32(data, 9)
    THEN [l |-> l, err |-> "format"]
    ELSE [l |-> [nil |-> FALSE, count |-> BytesU32(data, 1), last |-> BytesU32(data, 5),
                 b |-> SubSeq(data, 13, 12 + BytesU32(data, 9))],
          err |-> "nil"]

\* ---------------------------------------------------- sparse accumulator
NilSet == [nil |-> TRUE, keys |-> {}]
EmptySet == [nil |-> FALSE, keys |-> {}]

set_add(s, k) == [s EXCEPT !.keys = @ \cup {k}]

RECURSIVE KeysBytes(_)
KeysBytes(ks) == IF ks = << >> THEN << >> ELSE U32Bytes(Head(ks)) \o KeysBytes(Tail(ks))

\* order: the map iteration order of the keys.
set_MarshalBinary(s, order) == U32Bytes(Len(order)) \o KeysBytes(order)

\* --------------------------------------------------------------- sketch
\* A Sketch value. alpha is a function of m alone and hash is the same
\* function in every sketch, so neither is a field here. nil marks the
\* absent *Sketch argument of Merge.
NilSketch ==
    [nil |-> TRUE, p |-> 0, m |-> 0, b |-> 0, sparse |-> FALSE,
     tmpSet |-> NilSet, sparseList |-> NilList, regs |-> NilRegs]

\* A New that refuses the smallest precision too.
NewRefusingFour(precision) ==
    IF precision <= MinPrecision \/ precision > MaxPrecision
    THEN [sk |-> NilSketch, err |-> "p has to be >= 4 and <= 18"]
    ELSE [sk |-> [nil |-> FALSE, p |-> precision, m |-> 2 ^ precision, b |-> 0,
                  sparse |-> TRUE, tmpSet |-> EmptySet,
                  sparseList |-> newCompressedList(2 ^ precision), regs |-> NilRegs],
          err |-> "nil"]

New(precision) ==
    IF precision < MinPrecision \/ precision > MaxPrecision
    THEN [sk |-> NilSketch, err |-> "p has to be >= 4 and <= 18"]
    ELSE [sk |-> [nil |-> FALSE, p |-> precision, m |-> 2 ^ precision, b |-> 0,
                  sparse |-> TRUE, tmpSet |-> EmptySet,
                  sparseList |-> newCompressedList(2 ^ precision), regs |-> NilRegs],
          err |-> "nil"]

\* r - sk.b and sk.b + db in uint8 arithmetic.
Sub8(a, b) == (a - b + 256) % 256
Add8(a, b) == (a + b) % 256

\* An insert that rebases the registers without advancing b.
insertNotAdvancing(sk, i, r) ==
    LET over == Sub8(r, sk.b) >= capacity
        db == IF over THEN regs_min(sk.regs) ELSE 0
        s1 == IF over /\ db > 0
              THEN [sk EXCEPT !.regs = regs_rebase(sk.regs, db)]
              ELSE sk
        val == Min2(Sub8(r, s1.b), capacity - 1)
    IN  IF r > s1.b /\ val > regs_get(s1.regs, i)
        THEN [s1 EXCEPT !.regs = regs_set(s1.regs, i, val)]
        ELSE s1

insert(sk, i, r) ==
    LET over == Sub8(r, sk.b) >= capacity
        db == IF over THEN regs_min(sk.regs) ELSE 0
        s1 == IF over /\ db > 0
              THEN [sk EXCEPT !.b = Add8(sk.b, db), !.regs = regs_rebase(sk.regs, db)]
              ELSE sk
        val == Min2(Sub8(r, s1.b), capacity - 1)
    IN  IF r > s1.b /\ val > regs_get(s1.regs, i)
        THEN [s1 EXCEPT !.regs = regs_set(s1.regs, i, val)]
        ELSE s1

\* A loop body that, on equal heads, advances the iterator only.
MergeStepKeepingBoth(st) ==
    IF st.xs = << >> /\ st.ks = << >> THEN st
    ELSE IF st.xs = << >>
         THEN [xs |-> st.xs, ks |-> Tail(st.ks), l |-> list_Append(st.l, Head(st.ks))]
    ELSE IF st.ks = << >>
         THEN [xs |-> Tail(st.xs), ks |-> st.ks, l |-> list_Append(st.l, Head(st.xs))]
    ELSE IF Head(st.xs) = Head(st.ks)
         THEN [xs |-> Tail(st.xs), ks |-> st.ks, l |-> list_Append(st.l, Head(st.xs))]
    ELSE IF Head(st.xs) > Head(st.ks)
         THEN [xs |-> st.xs, ks |-> Tail(st.ks), l |-> list_Append(st.l, Head(st.ks))]
    ELSE [xs |-> Tail(st.xs), ks |-> st.ks, l |-> list_Append(st.l, Head(st.xs))]

\* One pass of the loop of mergeSparse: xs is what the iterator of the old
\* list has left, ks what is left of the sorted keys, l the new list. The
\* loop has ended when both are empty.
MergeStep(st) ==
    IF st.xs = << >> /\ st.ks = << >> THEN st
    ELSE IF st.xs = << >>
         THEN [xs |-> st.xs, ks |-> Tail(st.ks), l |-> list_Append(st.l, Head(st.ks))]
    ELSE IF st.ks = << >>
         THEN [xs |-> Tail(st.xs), ks |-> st.ks, l |-> list_Append(st.l, Head(st.xs))]
    ELSE IF Head(st.xs) = Head(st.ks)
         THEN [xs |-> Tail(st.xs), ks |-> Tail(st.ks), l |-> list_Append(st.l, Head(st.xs))]
    ELSE IF Head(st.xs) > Head(st.ks)
         THEN [xs |-> st.xs, ks |-> Tail(st.ks), l |-> list_Append(st.l, Head(st.ks))]
    ELSE [xs |-> Tail(st.xs), ks |-> st.ks, l |-> list_Append(st.l, Head(st.xs))]

RECURSIVE MergeLoop(_, _)
\* n passes of the loop, in order. (In the loops of this module the number
\* of passes is halved to keep the evaluation shallow, and a test that never
\* holds makes the accumulated value be evaluated at each step.)
MergeLoop(st, n) ==
    IF n <= 0 \/ st.l.nil THEN st
    ELSE IF n = 1 THEN MergeStep(st)
    ELSE MergeLoop(MergeLoop(st, n \div 2), n - (n \div 2))

\* The loop of mergeSparse: it ends within Len(xs) + Len(ks) passes.
MergeJoin(xs, ks, l) == MergeLoop([xs |-> xs, ks |-> ks, l |-> l], Len(xs) + Len(ks)).l

mergeSparse(sk) ==
    IF Cardinality(sk.tmpSet.keys) = 0 THEN sk
    ELSE [sk EXCEPT
            !.sparseList = MergeJoin(list_Iter(sk.sparseList), SortSet(sk.tmpSet.keys),
                                     newCompressedList(sk.m)),
            !.tmpSet = EmptySet]

RECURSIVE Replay(_, _, _, _)
\* The loop of toNormal over the entries xs[lo .. hi]: insert each, decoded
\* at (p, pp), in list order.
Replay(sk, xs, lo, hi) ==
    IF lo > hi \/ sk.regs.nil THEN sk
    ELSE IF lo = hi
         THEN insert(sk, decodeHash(xs[lo], sk.p, pp).i, decodeHash(xs[lo], sk.p, pp).r)
    ELSE Replay(Replay(sk, xs, lo, (lo + hi) \div 2), xs, ((lo + hi) \div 2) + 1, hi)

\* A toNormal that keeps the accumulator and the compressed list.
toNormalKeepingSparse(sk) ==
    LET s0 == IF Cardinality(sk.tmpSet.keys) > 0 THEN mergeSparse(sk) ELSE sk
        s1 == Replay([s0 EXCEPT !.regs = newRegisters(s0.m)], list_Iter(s0.sparseList),
                    1, Len(list_Iter(s0.sparseList)))
    IN  [s1 EXCEPT !.sparse = FALSE]

toNormal(sk) ==
    LET s0 == IF Cardinality(sk.tmpSet.keys) > 0 THEN mergeSparse(sk) ELSE sk
        s1 == Replay([s0 EXCEPT !.regs = newRegisters(s0.m)], list_Iter(s0.sparseList),
                    1, Len(list_Iter(s0.sparseList)))
    IN  [s1 EXCEPT !.sparse = FALSE, !.tmpSet = NilSet, !.sparseList = NilList]

Insert(sk, x) ==
    IF sk.sparse
    THEN LET s1 == [sk EXCEPT !.tmpSet = set_add(sk.tmpSet, encodeHash(x, sk.p, pp))]
         IN  IF Cardinality(s1.tmpSet.keys) * 100 > s1.m
             THEN LET s2 == mergeSparse(s1)
                  IN  IF list_Len(s2.sparseList) > s2.m THEN toNormal(s2) ELSE s2
             ELSE s1
    ELSE insert(sk, getPosVal(x, sk.p).i, getPosVal(x, sk.p).r)

\* An Estimate that promotes a Sparse sketch after its fold.
EstimatePromoting(sk) ==
    IF sk.sparse
    THEN LET s1 == mergeSparse(sk)
         IN  [sk |-> toNormal(s1),
              est |-> [kind |-> "linear", n |-> mp, ez |-> mp - s1.sparseList.count,
                       beta |-> FALSE, sum |-> [k \in {} |-> 0]]]
    ELSE [sk |-> sk,
          est |-> [kind |-> "dense", n |-> sk.m, ez |-> regs_zeros(sk.regs),
                   beta |-> (sk.b = 0), sum |-> regs_sum(sk.regs, sk.b)]]

\* Estimate returns a value that is a function of the record est: the
\* arguments of the estimator's formula (linear counting over mp buckets
\* with ez empty ones, or the dense formula over m, ez and sum, with the
\* beta correction when b = 0).
Estimate(sk) ==
    IF sk.sparse
    THEN LET s1 == mergeSparse(sk)
         IN  [sk |-> s1,
              est |-> [kind |-> "linear", n |-> mp, ez |-> mp - s1.sparseList.count,
                       beta |-> FALSE, sum |-> [k \in {} |-> 0]]]
    ELSE [sk |-> sk,
          est |-> [kind |-> "dense", n |-> sk.m, ez |-> regs_zeros(sk.regs),
                   beta |-> (sk.b = 0), sum |-> regs_sum(sk.regs, sk.b)]]

RECURSIVE MergeEntries(_, _, _)
\* The two loops of Merge over a Sparse other: ks the entries still to visit.
MergeEntries(rs, ks, p) ==
    IF ks = << >> \/ rs.nil THEN rs
    ELSE LET d == decodeHash(Head(ks), p, pp)
         IN  MergeEntries(IF regs_get(rs, d.i) < d.r THEN regs_set(rs, d.i, d.r) ELSE rs,
                          Tail(ks), p)

RECURSIVE MergeFields(_, _, _)
\* The loop of Merge over a Dense other: i the 1-based position in fs.
MergeFields(rs, fs, i) ==
    IF i > Len(fs) \/ rs.nil THEN rs
    ELSE LET v1 == reg_get(fs[i], 0)
             r1 == IF v1 > regs_get(rs, (i - 1) * 2) THEN regs_set(rs, (i - 1) * 2, v1) ELSE rs
             v2 == reg_get(fs[i], 1)
             r2 == IF v2 > regs_get(r1, 1 + (i - 1) * 2)
                   THEN regs_set(r1, 1 + (i - 1) * 2, v2) ELSE r1
         IN  MergeFields(r2, fs, i + 1)

\* The two branches of Merge on a Dense receiver. order: the iteration
\* order of other's accumulator (a Go map).
MergeInto(sk, other, order) ==
    [sk EXCEPT !.regs =
        IF other.sparse
        THEN MergeEntries(MergeEntries(sk.regs, order, other.p),
                          list_Iter(other.sparseList), other.p)
        ELSE MergeFields(sk.regs, other.regs.fields, 1)]

\* A Merge that takes other over as it is when the receiver is Dense with
\* every register at zero.
MergeAdopting(sk, other, order) ==
    IF other.nil THEN [sk |-> sk, other |-> other, shares |-> FALSE, err |-> "nil"]
    ELSE IF sk.p # other.p THEN [sk |-> sk, other |-> other, shares |-> FALSE, err |-> "precisions must be equal"]
    ELSE IF ~sk.sparse /\ sk.b = 0 /\ regs_zeros(sk.regs) = sk.m
    THEN [sk |-> other, other |-> other, shares |-> TRUE, err |-> "nil"]
    ELSE LET s1 == IF sk.sparse THEN toNormal(sk) ELSE sk
         IN  [sk |-> MergeInto(s1, other, order), other |-> other, shares |-> FALSE, err |-> "nil"]

\* A Merge that promotes the receiver before it compares the precisions.
MergePromotingFirst(sk, other, order) ==
    IF other.nil THEN [sk |-> sk, other |-> other, shares |-> FALSE, err |-> "nil"]
    ELSE LET s1 == IF sk.sparse THEN toNormal(sk) ELSE sk
         IN  IF sk.p # other.p THEN [sk |-> s1, other |-> other, shares |-> FALSE, err |-> "precisions must be equal"]
             ELSE [sk |-> MergeInto(s1, other, order), other |-> other, shares |-> FALSE, err |-> "nil"]

\* A Merge that promotes the receiver before it looks at other.
MergePromotingBeforeNil(sk, other, order) ==
    LET s1 == IF sk.sparse THEN toNormal(sk) ELSE sk
    IN  IF other.nil THEN [sk |-> s1, other |-> other, shares |-> FALSE, err |-> "nil"]
        ELSE IF sk.p # other.p THEN [sk |-> sk, other |-> other, shares |-> FALSE, err |-> "precisions must be equal"]
        ELSE [sk |-> MergeInto(s1, other, order), other |-> other, shares |-> FALSE, err |-> "nil"]

\* A Merge that lets an empty Sparse receiver take the register array of a
\* Dense other.
MergeTakingRegisters(sk, other, order) ==
    IF other.nil THEN [sk |-> sk, other |-> other, shares |-> FALSE, err |-> "nil"]
    ELSE IF sk.p # other.p
    THEN [sk |-> sk, other |-> other, shares |-> FALSE, err |-> "precisions must be equal"]
    ELSE IF sk.sparse /\ sk.tmpSet.keys = {} /\ list_Len(sk.sparseList) = 0 /\ ~other.sparse
    THEN [sk |-> [sk EXCEPT !.sparse = FALSE, !.tmpSet = NilSet, !.sparseList = NilList,
                            !.b = other.b, !.regs = other.regs],
          other |-> other, shares |-> TRUE, err |-> "nil"]
    ELSE LET s1 == IF sk.sparse THEN toNormal(sk) ELSE sk
         IN  [sk |-> MergeInto(s1, other, order), other |-> other, shares |-> FALSE,
              err |-> "nil"]

\* Merge returns sk and other as the call leaves them, whether sk then holds
\* a reference to an object of other, and the error.
Merge(sk, other, order) ==
    IF other.nil THEN [sk |-> sk, other |-> other, shares |-> FALSE, err |-> "nil"]
    ELSE IF sk.p # other.p THEN [sk |-> sk, other |-> other, shares |-> FALSE, err |-> "precisions must be equal"]
    ELSE LET s1 == IF sk.sparse THEN toNormal(sk) ELSE sk
         IN  [sk |-> MergeInto(s1, other, order), other |-> other, shares |-> FALSE, err |-> "nil"]

\* ------------------------------------------------------- serialization
\* A MarshalBinary that leaves the byte of b at zero.
MarshalWithoutB(sk, order) ==
    << version, sk.p, 0 >>
    \o (IF sk.sparse
        THEN << 1 >> \o set_MarshalBinary(sk.tmpSet, order)
                     \o list_MarshalBinary(sk.sparseList)
        ELSE << 0 >> \o U32Bytes(Len(sk.regs.fields)) \o sk.regs.fields)

\* order: the iteration order of the accumulator (a Go map).
MarshalBinary(sk, order) ==
    << version, sk.p, sk.b >>
    \o (IF sk.sparse
        THEN << 1 >> \o set_MarshalBinary(sk.tmpSet, order)
                     \o list_MarshalBinary(sk.sparseList)
        ELSE << 0 >> \o U32Bytes(Len(sk.regs.fields)) \o sk.regs.fields)

RECURSIVE ReadKeys(_, _, _)
\* The keys read by the accumulator loop of UnmarshalBinary from byte
\* offset i (0-based) up to tsLastByte, as far as data reaches.
ReadKeys(data, i, tsLastByte) ==
    IF i >= tsLastByte \/ i + 4 > Len(data) THEN {}
    ELSE {BytesU32(data, i + 1)} \cup ReadKeys(data, i + 4, tsLastByte)

\* The dense loop of UnmarshalBinary: the registers after storing the
\* payload bytes that fit, nz decremented once per non-zero counter.
FillFields(rs, payload) ==
    LET n == Min2(Len(payload), Len(rs.fields))
        f == [k \in 1 .. Len(rs.fields) |-> IF k <= n THEN payload[k] ELSE rs.fields[k]]
    IN  [nil |-> FALSE, fields |-> f, wmax |-> rs.wmax,
         nz |-> rs.nz - Cardinality({ i \in 0 .. (2 * n - 1) :
                                        reg_get(payload[(i \div 2) + 1], i % 2) > 0 })]

\* res is "nil", an error, or "panic" when an index or slice expression is
\* out of range; sk is the receiver as the call leaves it.
UnmarshalBinary(sk, data) ==
    IF Len(data) < 2 THEN [sk |-> sk, res |-> "panic"]
    ELSE IF New(data[2]).err # "nil" THEN [sk |-> sk, res |-> New(data[2]).err]
    ELSE LET n0 == New(data[2]).sk
         IN
         IF Len(data) < 3 THEN [sk |-> n0, res |-> "panic"]
         ELSE LET n1 == [n0 EXCEPT !.b = data[3]]
              IN
              IF Len(data) < 4 THEN [sk |-> n1, res |-> "panic"]
              ELSE IF data[4] = 1
              THEN IF Len(data) < 8 THEN [sk |-> n1, res |-> "panic"]
                   ELSE LET tsLastByte == BytesU32(data, 5) * 4 + 8
                            n2 == [n1 EXCEPT !.tmpSet =
                                     [nil |-> FALSE, keys |-> ReadKeys(data, 8, tsLastByte)]]
                        IN  IF Len(data) < tsLastByte THEN [sk |-> n2, res |-> "panic"]
                            ELSE LET lu == list_UnmarshalBinary(
                                             n2.sparseList,
                                             SubSeq(data, tsLastByte + 1, Len(data)))
                                 IN  [sk |-> [n2 EXCEPT !.sparseList = lu.l], res |-> lu.err]
              ELSE LET n2 == [n1 EXCEPT !.sparse = FALSE, !.sparseList = NilList,
                                        !.tmpSet = NilSet]
                   IN  IF Len(data) < 8 THEN [sk |-> n2, res |-> "panic"]
                       ELSE LET rs == newRegisters(BytesU32(data, 5) * 2)
                                payload == SubSeq(data, 9, Len(data))
                            IN  [sk |-> [n2 EXCEPT !.regs = FillFields(rs, payload)],
                                 res |-> IF Len(payload) > Len(rs.fields)
                                         THEN "panic" ELSE "nil"]

\* ------------------------------------------------------------- inputs
\* The hash whose bucket at precision 4 is bk and whose rank there is rank.
HashOf(bk, rank) ==
    IF rank <= pp - MinPrecision
    THEN [hi |-> bk * 2 ^ (pp - MinPrecision) + 2 ^ (pp - MinPrecision - rank), nlz |-> 0]
    ELSE [hi |-> bk * 2 ^ (pp - MinPrecision), nlz |-> rank - (pp - MinPrecision) - 1]

NoHash == [hi |-> 0, nlz |-> 0]

\* The hashes Insert is called with: rank 1 in bucket 1, and two ranks past
\* the counter width, 20 in bucket 0 and 16 in bucket 1.
Universe == { HashOf(1, 1), HashOf(0, 20), HashOf(1, 16) }

\* Rank 1 in each of the buckets 2 .. 15 and in bucket 0: 15 sparse entries.
Fill == [k \in 1 .. 15 |-> IF k = 15 THEN HashOf(0, 1) ELSE HashOf(k + 1, 1)]

\* Rank 4 in every bucket and rank 20 in bucket 0, which promote the sketch;
\* rank 16 in bucket 1, which rebases it to b = 4; rank 5 in each of the
\* buckets 2 .. 15, which leaves every register above zero.
Deep ==
    [k \in 1 .. 32 |-> IF k <= 16 THEN HashOf(k - 1, 4)
                       ELSE IF k = 17 THEN HashOf(0, 20)
                       ELSE IF k = 18 THEN HashOf(1, 16)
                       ELSE HashOf(k - 17, 5)]

\* A hash of rank 25, which the sparse entry stores explicitly.
Explicit == HashOf(3, 25)

\* Rank 1 in each of the buckets 1 .. 15 and the hash of rank 25 in bucket
\* 3, whose entry is the last of the list: 16 sparse entries.
Late == [k \in 1 .. 16 |-> IF k = 16 THEN Explicit ELSE HashOf(k, 1)]

AllHashes ==
    Universe \cup { Fill[k] : k \in 1 .. 15 } \cup {Explicit} \cup { Deep[k] : k \in 1 .. 32 }
    \cup { Late[k] : k \in 1 .. 16 }

RECURSIVE InsertRange(_, _, _, _)
\* Insert called with each hash of xs[lo .. hi] in turn.
InsertRange(sk, xs, lo, hi) ==
    IF lo > hi \/ sk.nil THEN sk
    ELSE IF lo = hi THEN Insert(sk, xs[lo])
    ELSE InsertRange(InsertRange(sk, xs, lo, (lo + hi) \div 2), xs, ((lo + hi) \div 2) + 1, hi)

InsertAll(sk, xs) == InsertRange(sk, xs, 1, Len(xs))

BagOf(xs) == [h \in AllHashes |-> Cardinality({ k \in 1 .. Len(xs) : xs[k] = h })]

\* How often a run of Insert calls alone calls Insert on one sketch.
MaxIns == 3

\* How many calls a run of all operations makes.
MaxCalls == 2

\* The sequences of Insert calls a sketch of precision 4 starts from:
\* none; the 15 filling hashes (Sparse, one entry short of m); those and
\* two more, which promotes the sketch (Dense, b = 0); those and three more,
\* which promotes and then rebases it (Dense, b = 1); two hashes of ranks
\* 20 and 25 (Sparse).
Preloads ==
    { << >>, Fill,
      Fill \o << HashOf(1, 1), HashOf(1, 16) >>,
      Fill \o << HashOf(1, 1), HashOf(0, 20), HashOf(1, 16) >>,
      << HashOf(0, 20), Explicit >> }

\* The same for a sketch of precision 7: none; one hash, which stays in
\* the accumulator; three hashes, two in the list and one in the accumulator.
Preloads7 == { << >>, << HashOf(0, 20) >>, << HashOf(0, 20), HashOf(1, 1), HashOf(1, 16) >> }

\* ---------------------------------------------------------------- state
VARIABLES
    skA,    \* the sketch the operations are called on
    skB,    \* a second sketch: the argument of Merge, the receiver of UnmarshalBinary
    bagA,   \* the multiset of hashes Insert was called with on skA
    bagB,   \* the same for skB
    nIns,   \* the number of Insert calls of this run, per sketch
    budget, \* the number of calls the run may still make
    wire,   \* the bytes of the last MarshalBinary and the sketch they were made from
    link,   \* "none" before skA has merged skB, then "apart" when the two sketches
            \* hold objects of their own, "shared" when skA's register array is skB's
    last    \* the last call: its receiver before the call, its arguments, its results

vars == << skA, skB, bagA, bagB, nIns, budget, wire, link, last >>

NoEst == [kind |-> "none", n |-> 0, ez |-> 0, beta |-> FALSE, sum |-> [k \in {} |-> 0]]

NoCall ==
    [op |-> "New", recv |-> "-", pre |-> NilSketch, arg |-> NilSketch, x |-> NoHash,
     order |-> << >>, data |-> << >>, res |-> "nil", est |-> NoEst,
     ab |-> NilSketch, ba |-> NilSketch]

\* A panic ends the run.
Running == last.res # "panic" /\ budget > 0

\* The sketches a run starts from: New followed by a preload.
Starts ==
    { [sk |-> InsertAll(New(MinPrecision).sk, xs), bag |-> BagOf(xs)] : xs \in Preloads }
    \cup { [sk |-> InsertAll(New(7).sk, xs), bag |-> BagOf(xs)] : xs \in Preloads7 }

Init ==
    /\ \E s \in Starts : skA = s.sk /\ bagA = s.bag
    /\ \E s \in Starts : skB = s.sk /\ bagB = s.bag
    /\ nIns = [A |-> 0, B |-> 0]
    /\ budget = MaxCalls
    /\ wire = [data |-> << >>, src |-> NilSketch]
    /\ link = "none"
    /\ last = NoCall

\* Two sketches with the same past, and calls of Insert only.
InitIns ==
    /\ \E xs \in {<< >>, Fill, Deep, Late} :
         /\ skA = InsertAll(New(MinPrecision).sk, xs) /\ bagA = BagOf(xs)
         /\ skB = skA /\ bagB = bagA
    /\ nIns = [A |-> 0, B |-> 0]
    /\ budget = 2 * MaxIns
    /\ wire = [data |-> << >>, src |-> NilSketch]
    /\ link = "none"
    /\ last = NoCall

InsertA(x) ==
    /\ Running
    /\ budget' = budget - 1
    /\ nIns.A < MaxIns
    /\ skA' = Insert(skA, x)
    /\ skB' = IF link = "shared" THEN [skB EXCEPT !.regs = Insert(skA, x).regs] ELSE skB
    /\ bagA' = [bagA EXCEPT ![x] = bagA[x] + 1]
    /\ nIns' = [nIns EXCEPT !.A = nIns.A + 1]
    /\ last' = [NoCall EXCEPT !.op = "Insert", !.recv = "A", !.pre = skA, !.x = x]
    /\ UNCHANGED << bagB, wire, link >>

InsertB(x) ==
    /\ Running
    /\ budget' = budget - 1
    /\ nIns.B < MaxIns
    /\ skB' = Insert(skB, x)
    /\ skA' = IF link = "shared" THEN [skA EXCEPT !.regs = Insert(skB, x).regs] ELSE skA
    /\ bagB' = [bagB EXCEPT ![x] = bagB[x] + 1]
    /\ nIns' = [nIns EXCEPT !.B = nIns.B + 1]
    /\ last' = [NoCall EXCEPT !.op = "Insert", !.recv = "B", !.pre = skB, !.x = x]
    /\ UNCHANGED << bagA, wire, link >>

\* skA.Merge(skB)
MergeA(order) ==
    /\ Running
    /\ budget' = budget - 1
    /\ skA' = Merge(skA, skB, order).sk
    /\ skB' = Merge(skA, skB, order).other
    /\ link' = IF Merge(skA, skB, order).err # "nil" THEN link
               ELSE IF Merge(skA, skB, order).shares THEN "shared" ELSE "apart"
    /\ last' = [NoCall EXCEPT !.op = "Merge", !.recv = "A", !.pre = skA, !.arg = skB,
                              !.order = order, !.res = Merge(skA, skB, order).err]
    /\ UNCHANGED << bagA, bagB, nIns, wire >>

\* skA.Merge(nil)
MergeNil ==
    /\ Running
    /\ budget' = budget - 1
    /\ skA' = Merge(skA, NilSketch, << >>).sk
    /\ last' = [NoCall EXCEPT !.op = "Merge", !.recv = "A", !.pre = skA, !.arg = NilSketch,
                              !.res = Merge(skA, NilSketch, << >>).err]
    /\ UNCHANGED << skB, bagA, bagB, nIns, wire, link >>

\* a.Merge(b) and b.Merge(a) on independent copies a of skA and b of skB.
MergeCopies(oa, ob) ==
    /\ Running
    /\ budget' = budget - 1
    /\ skA.p = skB.p
    /\ last' = [NoCall EXCEPT !.op = "MergeCopies", !.pre = skA, !.arg = skB,
                              !.ab = Merge(skA, skB, ob).sk, !.ba = Merge(skB, skA, oa).sk]
    /\ UNCHANGED << skA, skB, bagA, bagB, nIns, wire, link >>

EstimateA ==
    /\ Running
    /\ budget' = budget - 1
    /\ skA' = Estimate(skA).sk
    /\ last' = [NoCall EXCEPT !.op = "Estimate", !.recv = "A", !.pre = skA,
                              !.est = Estimate(skA).est]
    /\ UNCHANGED << skB, bagA, bagB, nIns, wire, link >>

MarshalA(order) ==
    /\ Running
    /\ budget' = budget - 1
    /\ wire' = [data |-> MarshalBinary(skA, order), src |-> skA]
    /\ last' = [NoCall EXCEPT !.op = "Marshal", !.recv = "A", !.pre = skA, !.order = order,
                              !.data = MarshalBinary(skA, order)]
    /\ UNCHANGED << skA, skB, bagA, bagB, nIns, link >>

\* The places a byte string is cut at.
CutPoints == {0, 1, 2, 3, 6, 8}

\* The byte strings UnmarshalBinary is called with: the marshalled bytes,
\* their prefixes, the bytes with another version, with a precision New refuses.
Inputs(data) ==
    {data}
    \cup { SubSeq(data, 1, k) : k \in { c \in CutPoints : c < Len(data) } }
    \cup { SubSeq(data, 1, Len(data) - 1) : k \in { c \in {1} : Len(data) > 0 } }
    \cup { [data EXCEPT ![1] = version + 1] : k \in { c \in {1} : Len(data) > 0 } }
    \cup { [data EXCEPT ![2] = q] : q \in { c \in {MinPrecision - 1, MaxPrecision + 1} :
                                             Len(data) > 1 } }

\* skB.UnmarshalBinary(data)
UnmarshalB(data) ==
    /\ Running
    /\ budget' = budget - 1
    /\ skB' = UnmarshalBinary(skB, data).sk
    /\ bagB' = IF skB' = skB THEN bagB ELSE [h \in AllHashes |-> 0]
    /\ link' = IF link = "shared" /\ skB' # skB THEN "apart" ELSE link
    /\ last' = [NoCall EXCEPT !.op = "Unmarshal", !.recv = "B", !.pre = skB, !.data = data,
                              !.res = UnmarshalBinary(skB, data).res]
    /\ UNCHANGED << skA, bagA, nIns, wire >>

Next ==
    \/ \E x \in Universe : InsertA(x)
    \/ \E x \in Universe : InsertB(x)
    \/ \E order \in Orders(skB.tmpSet.keys) : MergeA(order)
    \/ MergeNil
    \/ \E oa \in Orders(skA.tmpSet.keys), ob \in Orders(skB.tmpSet.keys) : MergeCopies(oa, ob)
    \/ EstimateA
    \/ \E order \in Orders(skA.tmpSet.keys) : MarshalA(order)
    \/ \E data \in Inputs(wire.data) : UnmarshalB(data)

Spec == Init /\ [][Next]_vars

NextIns ==
    \/ \E x \in Universe : InsertA(x)
    \/ \E x \in Universe : InsertB(x)

SpecIns == InitIns /\ [][NextIns]_vars

\* Every value of the uint8 parameter of New.
Precisions == 0 .. 255

InitNew ==
    /\ skA = New(MinPrecision).sk /\ bagA = BagOf(<< >>)
    /\ skB = skA /\ bagB = bagA
    /\ nIns = [A |-> 0, B |-> 0]
    /\ budget = MaxCalls
    /\ wire = [data |-> << >>, src |-> NilSketch]
    /\ link = "none"
    /\ last = NoCall

\* New(precision): data holds the argument, ab the sketch returned.
NewCall(precision) ==
    /\ last' = [NoCall EXCEPT !.op = "New", !.data = << precision >>,
                              !.res = New(precision).err, !.ab = New(precision).sk]
    /\ UNCHANGED << skA, skB, bagA, bagB, nIns, budget, wire, link >>

NextNew == \E precision \in Precisions : NewCall(precision)

SpecNew == InitNew /\ [][NextNew]_vars

\* n hashes with distinct sparse entries that a sketch of precision 7
\* keeps unflagged.
Many(n) == [k \in 1 .. n |-> [hi |-> k, nlz |-> 0]]

\* A sketch of precision 7 filled up to the edge of its list: m - 1, m
\* and m + 1 inserts.
InitFold ==
    /\ \E n \in {2 ^ 7 - 1, 2 ^ 7, 2 ^ 7 + 1} : skA = InsertAll(New(7).sk, Many(n))
    /\ bagA = BagOf(<< >>)
    /\ skB = New(7).sk /\ bagB = bagA
    /\ nIns = [A |-> 0, B |-> 0]
    /\ budget = 2 * MaxIns
    /\ wire = [data |-> << >>, src |-> NilSketch]
    /\ link = "none"
    /\ last = NoCall

NextFold ==
    \/ \E x \in Universe : InsertA(x)
    \/ EstimateA

SpecFold == InitFold /\ [][NextFold]_vars

\* ------------------------------------------------------- observations
\* The values of a list, as a set.
ListSet(l) ==
    LET xs == list_Iter(l)
    IN  { xs[k] : k \in 1 .. Len(xs) }

\* The distinct sparse entries of a Sparse sketch: accumulator and list.
SparseEntries(sk) == sk.tmpSet.keys \cup ListSet(sk.sparseList)

\* The stored value of every bucket of a Dense sketch.
Stored(sk) == [i \in 0 .. (regs_size(sk.regs) - 1) |-> regs_get(sk.regs, i)]

\* The true rank of bucket i of a Dense sketch.
TrueRank(sk, i) == regs_get(sk.regs, i) + sk.b

\* What Estimate reads: the tag, b, and the sparse entries or the registers.
EstimateInputs(sk) ==
    [sparse |-> sk.sparse, b |-> sk.b,
     entries |-> IF sk.sparse THEN SparseEntries(sk) ELSE {},
     stored |-> IF sk.sparse THEN << >> ELSE Stored(sk)]

\* ---------------------------------------------------------------- claims

\* C1: two sketches that start alike and are given the same multiset of
\* hashes by Insert, in any two orders, hold the same tag, b, registers and
\* sparse entries. (Checked under SpecIns; the code violates it.)
C1_OrderInvariant == (bagA = bagB) => EstimateInputs(skA) = EstimateInputs(skB)

\* C2: Insert of a hash that was inserted into the sketch before leaves the
\* tag, b, registers and sparse entries as they were. (Checked under
\* SpecIns; the code violates it.)
C2_DuplicateInvariant ==
    /\ (last.op = "Insert" /\ last.recv = "A" /\ bagA[last.x] >= 2)
         => EstimateInputs(skA) = EstimateInputs(last.pre)
    /\ (last.op = "Insert" /\ last.recv = "B" /\ bagB[last.x] >= 2)
         => EstimateInputs(skB) = EstimateInputs(last.pre)

\* C3: a.Merge(b) and b.Merge(a), on independent copies of two sketches of
\* equal precision, leave the two receivers with the same b and the same
\* stored value in every bucket. (The code violates it.)
C3_MergeCommutes ==
    last.op = "MergeCopies"
        => last.ab.b = last.ba.b /\ Stored(last.ab) = Stored(last.ba)

\* The receiver of the last Merge as the merge loops found it: promoted
\* if it was Sparse.
MergeReceiver == IF last.pre.sparse THEN toNormal(last.pre) ELSE last.pre

\* The largest rank among the entries of a Sparse sketch that decode to
\* bucket i, 0 when there is none.
MaxRankAt(sk, i) ==
    LET rs == { decodeHash(k, sk.p, pp).r :
                  k \in { e \in SparseEntries(sk) : decodeHash(e, sk.p, pp).i = i } }
    IN  IF rs = {} THEN 0 ELSE CHOOSE r \in rs : \A q \in rs : q <= r

\* C4: after a Merge that returns nil with a Dense other, the true rank of
\* every bucket of the receiver is the larger of its true rank before and
\* other's true rank. (The code violates it.)
C4_DenseMergeIsMax ==
    (last.op = "Merge" /\ last.res = "nil" /\ ~last.arg.nil /\ ~last.arg.sparse)
        => \A i \in 0 .. (skA.m - 1) :
             TrueRank(skA, i) = Max2(TrueRank(MergeReceiver, i), TrueRank(last.arg, i))

\* C5: after a Merge that returns nil with a Sparse other, the true rank of
\* every bucket of the receiver is the larger of its true rank before and
\* the largest rank among other's entries for that bucket. (The code
\* violates it.)
C5_SparseMergeIsMax ==
    (last.op = "Merge" /\ last.res = "nil" /\ ~last.arg.nil /\ last.arg.sparse)
        => \A i \in 0 .. (skA.m - 1) :
             TrueRank(skA, i) = Max2(TrueRank(MergeReceiver, i), MaxRankAt(last.arg, i))

\* C6: no Insert, Merge or Estimate takes a Dense sketch back to Sparse.
C6_OneWayPromotion ==
    [][/\ ~skA.sparse => ~skA'.sparse
       /\ (last'.op = "Insert" /\ ~skB.sparse) => ~skB'.sparse]_vars

\* A Dense receiver has been through a further Insert, Merge or Estimate.
C6_Witness ==
    /\ last.op \in {"Insert", "Merge", "Estimate"}
    /\ last.recv = "A"
    /\ ~last.pre.nil /\ ~last.pre.sparse
    /\ ~skA.sparse

\* C7: every value a register was set to, and every value a register holds,
\* is at most capacity - 1. (The code violates it.)
C7_RegisterBound ==
    \A sk \in {skA, skB} :
        (~sk.nil /\ ~sk.sparse)
            => /\ sk.regs.wmax <= capacity - 1
               /\ \A i \in 0 .. (sk.m - 1) : regs_get(sk.regs, i) <= capacity - 1

\* C8: UnmarshalBinary of the bytes MarshalBinary returned succeeds and
\* leaves a sketch with the same tag, p, b, accumulator set, list and stored
\* values, hence the same Estimate.
C8_RoundTrip ==
    (last.op = "Unmarshal" /\ ~wire.src.nil /\ last.data = wire.data)
        => /\ last.res = "nil"
           /\ skB.sparse = wire.src.sparse
           /\ skB.p = wire.src.p
           /\ skB.b = wire.src.b
           /\ skB.tmpSet = wire.src.tmpSet
           /\ skB.sparseList = wire.src.sparseList
           /\ Stored(skB) = Stored(wire.src)
           /\ Estimate(skB).est = Estimate(wire.src).est

\* A Dense sketch with b > 0 has been marshalled and read back.
C8_Witness ==
    /\ last.op = "Unmarshal" /\ ~wire.src.nil /\ last.data = wire.data
    /\ ~wire.src.sparse /\ wire.src.b > 0
    /\ last.res = "nil"

\* The length the header of data announces, 8 when data breaks off within
\* the header.
Announced(data) ==
    IF Len(data) < 8 THEN 8
    ELSE IF data[4] = 1
         THEN LET t == 8 + 4 * BytesU32(data, 5)
              IN  IF Len(data) < t + 12 THEN t + 12 ELSE t + 12 + BytesU32(data, t + 9)
         ELSE 8 + BytesU32(data, 5)

Malformed(data) ==
    \/ Len(data) < Announced(data)
    \/ data[1] # version
    \/ data[2] < MinPrecision \/ data[2] > MaxPrecision

\* C9: UnmarshalBinary of a truncated input, of an input of another
\* version, or of an input with a precision New refuses returns an error,
\* does not abort, and leaves the receiver as it was. (The code violates it.)
C9_CleanFailure ==
    (last.op = "Unmarshal" /\ Malformed(last.data))
        => /\ last.res \notin {"nil", "panic"}
           /\ skB = last.pre

\* C10: a Merge of two sketches of different precision returns an error and
\* leaves the receiver, a Sparse one included, and the argument as they were.
C10_PrecisionMismatch ==
    (last.op = "Merge" /\ ~last.arg.nil /\ last.pre.p # last.arg.p)
        => /\ last.res # "nil"
           /\ skA = last.pre
           /\ skB = last.arg

\* A Sparse receiver with entries has been merged with a sketch of another
\* precision.
C10_Witness ==
    /\ last.op = "Merge" /\ ~last.arg.nil /\ last.pre.p # last.arg.p
    /\ last.pre.sparse /\ SparseEntries(last.pre) # {}
    /\ last.res # "nil"

\* C11: sk.Merge(nil) returns nil and leaves every field of sk as it was,
\* in both representations.
C11_MergeNilNoOp ==
    (last.op = "Merge" /\ last.arg.nil)
        => /\ last.res = "nil"
           /\ skA = last.pre

\* A Sparse receiver with an entry in its accumulator has been merged
\* with nil.
C11_Witness ==
    /\ last.op = "Merge" /\ last.arg.nil
    /\ last.pre.sparse /\ last.pre.tmpSet.keys # {}
    /\ skA.sparse

\* C12: New(p) returns an error and no sketch exactly when p < 4 or
\* p > 18; for every p in 4 .. 18 it returns a Sparse sketch with m = 2^p,
\* b = 0, an empty accumulator and an empty compressed list.
C12_NewBoundary ==
    (last.op = "New" /\ Len(last.data) = 1)
        => /\ (last.res # "nil") <=> (last.data[1] < 4 \/ last.data[1] > 18)
           /\ (last.res # "nil") => last.ab.nil
           /\ (last.res = "nil")
                => /\ ~last.ab.nil /\ last.ab.sparse
                   /\ last.ab.p = last.data[1] /\ last.ab.m = 2 ^ last.data[1]
                   /\ last.ab.b = 0
                   /\ ~last.ab.tmpSet.nil /\ last.ab.tmpSet.keys = {}
                   /\ ~last.ab.sparseList.nil /\ list_Len(last.ab.sparseList) = 0
                   /\ list_Iter(last.ab.sparseList) = << >>
                   /\ last.ab.regs.nil

\* New has been called with the smallest precision it accepts.
C12_Witness ==
    /\ last.op = "New" /\ last.data = << 4 >>
    /\ last.res = "nil" /\ last.ab.m = 16

\* Exactly one representation is populated.
Consistent(sk) ==
    /\ ~sk.nil
    /\ sk.m = 2 ^ sk.p
    /\ IF sk.sparse
       THEN ~sk.tmpSet.nil /\ ~sk.sparseList.nil /\ sk.regs.nil
       ELSE /\ sk.tmpSet.nil /\ sk.sparseList.nil
            /\ ~sk.regs.nil /\ regs_size(sk.regs) = sk.m

\* C13: in every state reached by New, Insert, Merge, Estimate and
\* UnmarshalBinary of bytes MarshalBinary produced, a Sparse sketch has its
\* accumulator and compressed list and no register array, and a Dense sketch
\* has neither of the two and a register array of exactly m counters.
C13_OneRepresentation ==
    /\ Consistent(skA)
    /\ last.op = "New" => Consistent(skB)
    /\ last.op = "MergeCopies" => Consistent(last.ab) /\ Consistent(last.ba)
    /\ (/\ last.recv = "B" /\ Consistent(last.pre)
        /\ last.op = "Unmarshal" => (~wire.src.nil /\ last.data = wire.data))
           => Consistent(skB)

\* A Merge has promoted its Sparse receiver.
C13_Witness ==
    /\ last.op = "Merge" /\ last.res = "nil" /\ ~last.arg.nil
    /\ last.pre.sparse /\ SparseEntries(last.pre) # {}
    /\ ~skA.sparse

Ascending(xs) == \A k \in 1 .. (Len(xs) - 1) : xs[k] < xs[k + 1]

\* post is what a fold makes of pre: the list is the ascending enumeration
\* of pre's list and accumulator together, the accumulator is empty.
FoldOk(pre, post) ==
    LET before == SparseEntries(pre)
        after == list_Iter(post.sparseList)
    IN  Ascending(list_Iter(pre.sparseList))
           => /\ after = SortSet(before)
              /\ Ascending(after)
              /\ list_Len(post.sparseList) = Cardinality(before)
              /\ ~post.tmpSet.nil /\ post.tmpSet.keys = {}

\* The receiver of the last Insert with the entry added, as the fold of
\* Insert found it.
InsertFolded ==
    [last.pre EXCEPT !.tmpSet = set_add(last.pre.tmpSet, encodeHash(last.x, last.pre.p, pp))]

\* C14: a fold of a sketch whose compressed list is strictly ascending
\* leaves the list as the strictly ascending enumeration of the old list's
\* entries and the accumulator's, and the accumulator empty; the list of
\* every Sparse sketch is strictly ascending.
C14_FoldIsSortedUnion ==
    /\ \A sk \in {skA, skB} :
         (~sk.nil /\ sk.sparse)
            => /\ Ascending(list_Iter(sk.sparseList))
               /\ FoldOk(sk, mergeSparse(sk))
    /\ (last.op = "Estimate" /\ last.pre.sparse) => FoldOk(last.pre, skA)
    /\ (/\ last.op = "Insert" /\ last.pre.sparse
        /\ Cardinality(InsertFolded.tmpSet.keys) * 100 > last.pre.m
        /\ (IF last.recv = "A" THEN skA ELSE skB).sparse)
           => FoldOk(InsertFolded, IF last.recv = "A" THEN skA ELSE skB)

\* Estimate has folded a non-empty accumulator into a non-empty list.
C14_Witness ==
    /\ last.op = "Estimate" /\ last.pre.sparse
    /\ last.pre.tmpSet.keys # {} /\ ListSet(last.pre.sparseList) # {}
    /\ list_Len(skA.sparseList) = 3

\* C15: when an Insert or an Estimate returns, a sketch whose compressed
\* list holds more than m elements is Dense. (The code violates it.)
C15_PromotionThreshold ==
    (last.op \in {"Insert", "Estimate"} /\ last.recv = "A" /\ skA.sparse)
        => list_Len(skA.sparseList) <= skA.m

\* The receiver of the last call as it is now.
Receiver == IF last.recv = "B" THEN skB ELSE skA

\* C16: a dense insert lowers the true rank of no bucket and changes the
\* true rank of no bucket other than its own; a rebase by the minimum
\* leaves the true rank of every bucket as it was.
C16_TrueRanksMonotone ==
    /\ (last.op = "Insert" /\ ~last.pre.sparse)
          => \A i \in 0 .. (last.pre.m - 1) :
                /\ TrueRank(Receiver, i) >= TrueRank(last.pre, i)
                /\ i # getPosVal(last.x, last.pre.p).i
                      => TrueRank(Receiver, i) = TrueRank(last.pre, i)
    /\ \A sk \in {skA, skB} :
          (~sk.nil /\ ~sk.sparse)
             => \A i \in 0 .. (sk.m - 1) :
                   regs_get(regs_rebase(sk.regs, regs_min(sk.regs)), i)
                      + sk.b + regs_min(sk.regs) = TrueRank(sk, i)

\* A dense insert has rebased the registers.
C16_Witness ==
    /\ last.op = "Insert" /\ ~last.pre.sparse
    /\ Receiver.b > last.pre.b
    /\ \E i \in 0 .. (last.pre.m - 1) : TrueRank(Receiver, i) > TrueRank(last.pre, i)

\* C17: a dense insert of (index, rank) changes b only when rank - b, over
\* the integers, is at least capacity, and an insert with rank <= b changes
\* neither b nor any stored value. (The code violates it.)
C17_RebaseTrigger ==
    (last.op = "Insert" /\ ~last.pre.sparse)
        => /\ Receiver.b # last.pre.b
                => getPosVal(last.x, last.pre.p).r - last.pre.b >= capacity
           /\ getPosVal(last.x, last.pre.p).r <= last.pre.b
                => Receiver.b = last.pre.b /\ Stored(Receiver) = Stored(last.pre)

\* The sketch a promotion of the last call made, and the entries the
\* sketch held when toNormal was entered.
Promoted == IF last.op = "Merge" THEN MergeReceiver ELSE Receiver
PromotedEntries ==
    IF last.op = "Merge" THEN SparseEntries(last.pre) ELSE SparseEntries(InsertFolded)

\* C18: after a promotion by Insert or Merge, every entry (index, rank) the
\* Sparse sketch held has stored[index] + b >= min(rank, b + capacity - 1),
\* and a bucket no entry decodes to holds 0. (The code violates it.)
C18_PromotionKeepsRanks ==
    (/\ last.op \in {"Insert", "Merge"} /\ last.res = "nil"
     /\ ~last.pre.nil /\ last.pre.sparse /\ ~Receiver.sparse)
        => /\ \A e \in PromotedEntries :
                 TrueRank(Promoted, decodeHash(e, last.pre.p, pp).i)
                    >= Min2(decodeHash(e, last.pre.p, pp).r, Promoted.b + capacity - 1)
           /\ \A i \in 0 .. (last.pre.m - 1) :
                 (\A e \in PromotedEntries : decodeHash(e, last.pre.p, pp).i # i)
                     => regs_get(Promoted.regs, i) = 0

\* C19: Estimate changes neither the tag, p, m, b nor any register; on a
\* Sparse sketch it moves the accumulator's entries into the list and
\* leaves the set of entries as it was; a second Estimate right after
\* returns what the first returned.
C19_EstimateReadOnly ==
    last.op = "Estimate"
        => /\ skA.sparse = last.pre.sparse
           /\ skA.p = last.pre.p /\ skA.m = last.pre.m /\ skA.b = last.pre.b
           /\ skA.regs = last.pre.regs
           /\ last.pre.sparse
                => /\ SparseEntries(skA) = SparseEntries(last.pre)
                   /\ skA.tmpSet.keys = {}
           /\ ~last.pre.sparse => skA = last.pre
           /\ Estimate(skA).est = last.est
           /\ Estimate(skA).sk = skA

\* Estimate has been called on a Sparse sketch with entries in its
\* accumulator and in its list, and on nothing else since.
C19_Witness ==
    /\ last.op = "Estimate" /\ last.est.kind = "linear"
    /\ last.pre.tmpSet.keys # {} /\ list_Len(last.pre.sparseList) > 0
    /\ list_Len(skA.sparseList) > list_Len(last.pre.sparseList)

\* C20: sk.Merge(other) leaves every field of other as it was, whether it
\* succeeds or fails, and an Insert into one of the two sketches afterwards
\* changes nothing in the other.
C20_MergeLeavesArgument ==
    [][/\ last'.op = "Merge" => skB' = skB
       /\ (last'.op = "Insert" /\ last'.recv = "A") => skB' = skB
       /\ (last'.op = "Insert" /\ last'.recv = "B") => skA' = skA
       /\ link' # "shared"]_vars

\* After a Merge that succeeded, an Insert into the receiver has changed
\* one of its registers.
C20_Witness ==
    /\ link = "apart"
    /\ last.op = "Insert" /\ last.recv = "A"
    /\ ~last.pre.sparse /\ skA.regs # last.pre.regs
    /\ ~skB.sparse

====
